---- MODULE Spec2Model ----
(***************************************************************************)
(* Model of neat-python's ParallelEvaluator (src/parallel.py) and of the   *)
(* ReporterSet broadcast bus (src/reporting.py).                           *)
(*                                                                         *)
(* SpecEval: one ParallelEvaluator, its multiprocessing pool and the jobs  *)
(*           the pool runs, driven through evaluate() and __del__().       *)
(* SpecBus : one ReporterSet, driven through add, remove and the eight     *)
(*           broadcast methods, with hooks that may raise or re-enter.     *)
(* SpecStd : one StdOutReporter, its clock and its log files, driven       *)
(*           through its eight hooks.                                      *)
(***************************************************************************)
EXTENDS Integers, Sequences, FiniteSets, TLC

(* ---------------------------- bounds ---------------------------------- *)
MaxPop == 3
MaxWorkers == 2
MaxClients == 3
MaxRounds == 2
NumObservers == 2
MaxAdds == 3
MaxEnds == 11
MaxNow == 1
MaxLog == 2
MaxGen == 1
MaxExtinctions == 1

(* ---------------------------- state ----------------------------------- *)
VARIABLES
    num_workers,   \* self.num_workers
    clients,       \* self.clients: key i |-> client handle, keys 0..C-1
    timeout,       \* self.timeout: "None" or "set"
    poolState,     \* state of self.pool: "RUN" accepts work, "CLOSE" does not
    pool,          \* every job ever handed to self.pool, in submission order
    chunks,        \* self.chunks
    population,    \* the caller's genome objects
    genomes,       \* the local name `genomes` inside evaluate
    pc,            \* position of the caller inside / outside evaluate
    err,           \* the exception evaluate raised, "none" otherwise
    i,             \* loop variable of `for i in self.clients` (position)
    jobIdx,        \* position of `for job in jobs`
    round,         \* number of evaluate calls made so far
    torn,          \* progress of __del__: "no", "closing", "done"
    reporters,     \* ReporterSet.reporters
    bcast,         \* the broadcast method call in progress or last finished
    ret,           \* the last ReporterSet call or hook, and how it ended
    adds,          \* history: the observers passed to add, in call order
    removed,       \* history: per observer, the remove calls that returned
    unreg,         \* history: observers whose latest add/remove was a returned remove
    show_species_detail,    \* StdOutReporter.show_species_detail
    generation,             \* StdOutReporter.generation
    generation_start_time,  \* StdOutReporter.generation_start_time
    generation_times,       \* StdOutReporter.generation_times
    num_extinctions,        \* StdOutReporter.num_extinctions
    now,                    \* what time.time() returns
    fitness_population,     \* the file 'fitness_population': [exists, content]
    fitness_generation,     \* the files 'fitness_generation_<g>': g |-> rows
    popArg,                 \* the population the generation loop hands to the hooks
    speciesArg,             \* the species set the generation loop hands to the hooks
    allTimes                \* history: the duration every end_generation measured

evalVars == <<num_workers, clients, timeout, poolState, pool, chunks,
              population, genomes, pc, err, i, jobIdx, round, torn>>

busVars == <<reporters, bcast, ret, adds, removed, unreg>>

stdVars == <<show_species_detail, generation, generation_start_time,
             generation_times, num_extinctions, now, fitness_population,
             fitness_generation, popArg, speciesArg, allTimes>>

vars == <<evalVars, busVars, stdVars>>

(* ------------------------ helpers (pure) ------------------------------ *)
Min(a, b) == IF a < b THEN a ELSE b

Range(s) == {s[k] : k \in 1..Len(s)}

\* range(0, stop, step) for step > 0: 0, step, 2*step, ... below stop
range0(stop, step) == [k \in 1..((stop + step - 1) \div step) |-> (k - 1) * step]

\* l[a:b] on a Python list held as a 1-based sequence
Slice(l, a, b) == SubSeq(l, a + 1, Min(b, Len(l)))

\* ParallelEvaluator._chunks(l, n), n > 0: successive n-sized chunks from l
_chunks(l, n) == [k \in 1..Len(range0(Len(l), n)) |->
                    Slice(l, range0(Len(l), n)[k], range0(Len(l), n)[k] + n)]

\* the chunk size gone wrong: max(1, floor(len(genomes) / self.num_workers))
ChunkSizeAtLeastOne(n, w) == IF n \div w = 0 THEN 1 ELSE n \div w

\* math.floor(len(genomes) / self.num_workers)
ChunkSize(n, w) == n \div w

\* a freshly bred population of n genomes: keys 1..n, fitness absent
FreshPopulation(n) == [k \in 1..n |-> [key |-> k, fitness |-> "None", writes |-> 0]]

Keys(pop) == [k \in 1..Len(pop) |-> pop[k].key]

\* the jobs list of the current evaluate call, as positions in the pool
RoundJobs == {k \in 1..Len(pool) : pool[k].round = round}

Completed(job) == job.status \in {"done", "failed"}

InFlight(job) == job.status \in {"pending", "running"}

AllCompleted == \A k \in 1..Len(pool) : Completed(pool[k])

\* a genome key that no population uses
ForeignKey == 0

\* what eval_function returned for a chunk: one (key, fitness) pair per genome;
\* nothing in evaluate constrains the keys, so a result may name a foreign key
JobResult(job) ==
    [k \in 1..Len(job.chunk) |->
        <<IF job.foreign /\ k = 1 THEN ForeignKey ELSE job.chunk[k], "fit">>]

\* the k-th job appended to `jobs` in this round
JobAt(k) == CHOOSE p \in RoundJobs : Cardinality({q \in RoundJobs : q < p}) = k - 1

Ready == {"idle", "returned", "raised"}

(* --------------------------- ReporterSet ------------------------------ *)
Observers == 1..NumObservers

Methods == {"start_generation", "end_generation", "post_evaluate",
            "post_reproduction", "complete_extinction", "found_solution",
            "species_stagnant", "info"}

\* the hook each broadcast method calls on a reporter
HookCalled(m) ==
    CASE m = "start_generation"    -> "start_generation"
      [] m = "end_generation"      -> "end_generation"
      [] m = "post_evaluate"       -> "post_evaluate"
      [] m = "post_reproduction"   -> "post_reproduction"
      [] m = "complete_extinction" -> "complete_extinction"
      [] m = "found_solution"      -> "found_solution"
      [] m = "species_stagnant"    -> "species_stagnant"
      [] m = "info"                -> "info"

\* list.append(x)
ListAppend(s, x) == Append(s, x)

\* position of the first element of s equal to x, 0 when there is none
FirstIndex(s, x) ==
    IF x \in Range(s) THEN CHOOSE k \in 1..Len(s) : s[k] = x /\ \A q \in 1..(k - 1) : s[q] # x
                      ELSE 0

\* list.remove(x) gone wrong: deletes every element equal to x
ListRemoveAll(s, x) ==
    [found |-> x \in Range(s), list |-> SelectSeq(s, LAMBDA y : y # x)]

\* list.remove(x) gone wrong: `del s[s.find(x)]`, where a miss yields -1 and
\* deletes the last element without an error
ListRemoveByFind(s, x) ==
    IF FirstIndex(s, x) = 0
       THEN [found |-> TRUE, list |-> SubSeq(s, 1, Len(s) - 1)]
       ELSE [found |-> TRUE,
             list |-> SubSeq(s, 1, FirstIndex(s, x) - 1) \o SubSeq(s, FirstIndex(s, x) + 1, Len(s))]

\* position of the last element of s equal to x, 0 when there is none
LastIndex(s, x) ==
    IF x \in Range(s) THEN CHOOSE k \in 1..Len(s) : s[k] = x /\ \A q \in (k + 1)..Len(s) : s[q] # x
                      ELSE 0

\* list.remove(x) gone wrong: deletes the last element equal to x
ListRemoveLast(s, x) ==
    IF LastIndex(s, x) = 0
       THEN [found |-> FALSE, list |-> s]
       ELSE [found |-> TRUE,
             list |-> SubSeq(s, 1, LastIndex(s, x) - 1) \o SubSeq(s, LastIndex(s, x) + 1, Len(s))]

\* list.remove(x): deletes the first element equal to x; ValueError when x
\* is not in the list (found = FALSE, list untouched)
ListRemove(s, x) ==
    IF FirstIndex(s, x) = 0
       THEN [found |-> FALSE, list |-> s]
       ELSE [found |-> TRUE,
             list |-> SubSeq(s, 1, FirstIndex(s, x) - 1) \o SubSeq(s, FirstIndex(s, x) + 1, Len(s))]

NoBroadcast == [status |-> "idle", method |-> "none", idx |-> 0, log |-> <<>>,
                mutated |-> FALSE, failed |-> 0, start |-> <<>>]

\* ReporterSet.__init__
InitBus ==
    /\ reporters = <<>>
    /\ bcast = NoBroadcast
    /\ ret = [op |-> "init", arg |-> 0, res |-> "ok"]
    /\ adds = <<>>
    /\ removed = [o \in Observers |-> 0]
    /\ unreg = {}

\* a call made while a broadcast is running comes from inside a hook
AfterRegistryCall == IF bcast.status = "running" THEN [bcast EXCEPT !.mutated = TRUE]
                                                  ELSE NoBroadcast

\* ReporterSet.add(reporter)
add(r) ==
    /\ Len(adds) < MaxAdds
    /\ reporters' = ListAppend(reporters, r)
    /\ ret' = [op |-> "add", arg |-> r, res |-> "ok"]
    /\ adds' = Append(adds, r)
    /\ unreg' = unreg \ {r}
    /\ bcast' = AfterRegistryCall
    /\ UNCHANGED removed
    /\ UNCHANGED <<evalVars, stdVars>>

\* ReporterSet.remove(reporter)
remove(r) ==
    /\ IF ListRemove(reporters, r).found
          THEN /\ reporters' = ListRemove(reporters, r).list
               /\ ret' = [op |-> "remove", arg |-> r, res |-> "ok"]
               /\ removed' = [removed EXCEPT ![r] = @ + 1]
               /\ unreg' = unreg \cup {r}
               /\ bcast' = AfterRegistryCall
          ELSE /\ ret' = [op |-> "remove", arg |-> r, res |-> "ValueError"]
               /\ bcast' = IF bcast.status = "running" THEN bcast ELSE NoBroadcast
               /\ UNCHANGED <<reporters, removed, unreg>>
    /\ UNCHANGED adds
    /\ UNCHANGED <<evalVars, stdVars>>

\* a broadcast method m is called: `for r in self.reporters` starts
Broadcast(m) ==
    /\ bcast.status # "running"
    /\ bcast' = [status |-> "running", method |-> m, idx |-> 0, log |-> <<>>,
                 mutated |-> FALSE, failed |-> 0, start |-> reporters]
    /\ ret' = [op |-> m, arg |-> 0, res |-> "running"]
    /\ UNCHANGED <<reporters, adds, removed, unreg>>
    /\ UNCHANGED <<evalVars, stdVars>>

\* the loop body gone wrong: `try: r.<hook>(...) except Exception: pass`
DeliverSwallow(outcome) ==
    /\ bcast.status = "running"
    /\ bcast.idx < Len(reporters)
    /\ bcast' = [bcast EXCEPT
                    !.idx = @ + 1,
                    !.log = Append(@, [obs |-> reporters[bcast.idx + 1],
                                       hook |-> HookCalled(bcast.method)]),
                    !.failed = IF outcome = "raise" THEN Len(bcast.log) + 1 ELSE @]
    /\ ret' = [op |-> "hook", arg |-> reporters[bcast.idx + 1],
               res |-> IF outcome = "raise" THEN "raised" ELSE "ok"]
    /\ UNCHANGED <<reporters, adds, removed, unreg>>
    /\ UNCHANGED <<evalVars, stdVars>>

\* one pass of `for r in self.reporters: r.<hook>(...)`: the list iterator
\* yields self.reporters[idx], the hook runs and returns or raises; nothing
\* catches what it raises
Deliver(outcome) ==
    /\ bcast.status = "running"
    /\ bcast.idx < Len(reporters)
    /\ bcast' = [bcast EXCEPT
                    !.idx = @ + 1,
                    !.log = Append(@, [obs |-> reporters[bcast.idx + 1],
                                       hook |-> HookCalled(bcast.method)]),
                    !.status = IF outcome = "raise" THEN "raised" ELSE @,
                    !.failed = IF outcome = "raise" THEN Len(bcast.log) + 1 ELSE @]
    /\ ret' = [op |-> "hook", arg |-> reporters[bcast.idx + 1],
               res |-> IF outcome = "raise" THEN "raised" ELSE "ok"]
    /\ UNCHANGED <<reporters, adds, removed, unreg>>
    /\ UNCHANGED <<evalVars, stdVars>>

\* the list iterator is exhausted: the broadcast method returns
Finish ==
    /\ bcast.status = "running"
    /\ bcast.idx >= Len(reporters)
    /\ bcast' = [bcast EXCEPT !.status = "done"]
    /\ ret' = [op |-> bcast.method, arg |-> 0, res |-> "ok"]
    /\ UNCHANGED <<reporters, adds, removed, unreg>>
    /\ UNCHANGED <<evalVars, stdVars>>

(* -------------------------- StdOutReporter ---------------------------- *)
\* Python's None, and a value that is not None
None == <<>>

Some(x) == <<x>>

\* self.generation_times[-10:]
Window == 10

\* s[-n:] gone wrong: s[:n]
KeepFirst(s, n) == IF Len(s) <= n THEN s ELSE SubSeq(s, 1, n)

\* s[-n:]
KeepLast(s, n) == IF Len(s) <= n THEN s ELSE SubSeq(s, Len(s) - n + 1, Len(s))

Generations == 0..MaxGen

\* the populations the generation loop may hand over: fully evaluated, or
\* with a genome that has no fitness yet
Populations ==
    { <<[key |-> 1, fitness |-> Some(1)]>>,
      <<[key |-> 1, fitness |-> Some(1)], [key |-> 2, fitness |-> None]>> }

\* one species, created and last improved in generation 0
SpeciesSets == { <<[sid |-> 1, created |-> 0, last_improved |-> 0, members |-> {1},
                    fitness |-> None, adjusted_fitness |-> None]>> }

NoFile == [exists |-> FALSE, content |-> <<>>]

\* lines 110-112 gone wrong: the log is opened with 'w' for every generation
OpenedAfresh(file, g) == <<>>

\* lines 110-112: open('fitness_population', 'w') when the file is missing or
\* the generation is 0, which leaves an empty file; otherwise the file as it is
Opened(file, g) == IF ~file.exists \/ g = 0 THEN <<>> ELSE file.content

\* line 115: f.write('{},'.format(generation))
Header(g) == [kind |-> "generation", gen |-> Some(g), fits |-> <<>>, best |-> None]

\* line 179: [c.fitness for c in itervalues(population)]
Fitnesses(pop) == [k \in 1..Len(pop) |-> pop[k].fitness]

\* lines 186-187: the record mean,stdev,best,median of the fitness values
StatsRow(pop, b) == [kind |-> "stats", gen |-> None, fits |-> Fitnesses(pop),
                     best |-> pop[b].fitness]

\* lines 190-192: one row generation,key,fitness per genome
GenomeRows(g, pop) == [k \in 1..Len(pop) |-> <<g, pop[k].key, pop[k].fitness>>]

\* the rows held by the per-generation files named in S, all together
RECURSIVE RowsIn(_)
RowsIn(S) ==
    IF S = {} THEN 0
    ELSE LET g == CHOOSE x \in S : TRUE
         IN Len(fitness_generation[g]) + RowsIn(S \ {g})

RowsWritten == RowsIn(DOMAIN fitness_generation)

\* StdOutReporter.__init__(show_species_detail), with the files an earlier run
\* may have left and the population of the run
ConstructStd(detail, pop, sp, file) ==
    /\ show_species_detail = detail
    /\ generation = None
    /\ generation_start_time = None
    /\ generation_times = <<>>
    /\ num_extinctions = 0
    /\ now = 0
    /\ fitness_population = file
    /\ fitness_generation = [g \in {None} \cup {Some(x) : x \in Generations} |-> <<>>]
    /\ popArg = pop
    /\ speciesArg = sp
    /\ allTimes = <<>>

\* time.time() moves on
Tick ==
    /\ now < MaxNow
    /\ now' = now + 1
    /\ UNCHANGED <<show_species_detail, generation, generation_start_time,
                   generation_times, num_extinctions, fitness_population,
                   fitness_generation, popArg, speciesArg, allTimes>>
    /\ UNCHANGED <<evalVars, busVars>>

\* StdOutReporter.start_generation, lines 104-117
start_generation(g) ==
    /\ generation' = Some(g)
    /\ fitness_population' =
          [exists |-> TRUE, content |-> Append(Opened(fitness_population, g), Header(g))]
    /\ generation_start_time' = Some(now)
    /\ UNCHANGED <<show_species_detail, generation_times, num_extinctions, now,
                   fitness_generation, popArg, speciesArg, allTimes>>
    /\ UNCHANGED <<evalVars, busVars>>

\* StdOutReporter.end_generation, lines 119-175. Before any start_generation
\* self.generation and self.generation_start_time are None and the arithmetic
\* of line 141 or line 157 raises TypeError, before line 158.
end_generation ==
    /\ IF generation_start_time = None
          THEN UNCHANGED <<generation_times, allTimes>>
          ELSE /\ generation_times' =
                     KeepLast(Append(generation_times, now - generation_start_time[1]), Window)
               /\ allTimes' = Append(allTimes, now - generation_start_time[1])
    /\ UNCHANGED <<show_species_detail, generation, generation_start_time,
                   num_extinctions, now, fitness_population, fitness_generation,
                   popArg, speciesArg>>
    /\ UNCHANGED <<evalVars, busVars>>

\* post_evaluate gone wrong: `c.fitness = c.fitness or 0` before the statistics
post_evaluateDefaulting(b) ==
    /\ b \in 1..Len(popArg)
    /\ popArg' = [k \in 1..Len(popArg) |->
                    [popArg[k] EXCEPT !.fitness = IF @ = None THEN Some(0) ELSE @]]
    /\ fitness_population' =
          [exists |-> TRUE,
           content |-> Append(fitness_population.content, StatsRow(popArg', b))]
    /\ fitness_generation' =
          [fitness_generation EXCEPT ![generation] = @ \o GenomeRows(generation, popArg')]
    /\ UNCHANGED <<show_species_detail, generation, generation_start_time,
                   generation_times, num_extinctions, now, speciesArg, allTimes>>
    /\ UNCHANGED <<evalVars, busVars>>

\* StdOutReporter.post_evaluate, lines 177-212, for best_genome = population[b].
\* mean() of line 180 raises on a fitness that is None, before anything is
\* written.
post_evaluate(b) ==
    /\ b \in 1..Len(popArg)
    /\ IF \E k \in 1..Len(popArg) : popArg[k].fitness = None
          THEN UNCHANGED <<fitness_population, fitness_generation>>
          ELSE /\ fitness_population' =
                     [exists |-> TRUE,
                      content |-> Append(fitness_population.content, StatsRow(popArg, b))]
               /\ fitness_generation' =
                     [fitness_generation EXCEPT ![generation] = @ \o GenomeRows(generation, popArg)]
    /\ UNCHANGED <<show_species_detail, generation, generation_start_time,
                   generation_times, num_extinctions, now, popArg, speciesArg, allTimes>>
    /\ UNCHANGED <<evalVars, busVars>>

\* StdOutReporter.post_reproduction (inherited from BaseReporter): pass
post_reproduction ==
    /\ UNCHANGED stdVars
    /\ UNCHANGED <<evalVars, busVars>>

\* StdOutReporter.complete_extinction, lines 214-216
complete_extinction ==
    /\ num_extinctions' = num_extinctions + 1
    /\ UNCHANGED <<show_species_detail, generation, generation_start_time,
                   generation_times, now, fitness_population, fitness_generation,
                   popArg, speciesArg, allTimes>>
    /\ UNCHANGED <<evalVars, busVars>>

\* StdOutReporter.found_solution, lines 218-220: prints
found_solution ==
    /\ UNCHANGED stdVars
    /\ UNCHANGED <<evalVars, busVars>>

\* StdOutReporter.species_stagnant, lines 222-227: prints and reports
species_stagnant ==
    /\ UNCHANGED stdVars
    /\ UNCHANGED <<evalVars, busVars>>

\* StdOutReporter.info, lines 229-230: prints
info ==
    /\ UNCHANGED stdVars
    /\ UNCHANGED <<evalVars, busVars>>

\* a reporter nobody calls, beside the evaluator and the ReporterSet
InitStdIdle == ConstructStd(FALSE, <<[key |-> 1, fitness |-> Some(1)]>>,
                            <<>>, NoFile)

(* ----------------------------- Init ----------------------------------- *)
\* ParallelEvaluator.__init__(num_workers, eval_function, clients, settings, timeout)
Construct(w, c, t) ==
    /\ num_workers = w
    /\ clients = [k \in 0..(c - 1) |-> k]
    /\ timeout = t
    /\ poolState = "RUN"
    /\ pool = <<>>
    /\ chunks = <<>>
    /\ population = <<>>
    /\ genomes = <<>>
    /\ pc = "idle"
    /\ err = "none"
    /\ i = 0
    /\ jobIdx = 0
    /\ round = 0
    /\ torn = "no"

\* an evaluator built with any worker count, client set and timeout, next to
\* an empty ReporterSet
InitEval ==
    /\ \E w \in 1..MaxWorkers : \E c \in 1..MaxClients : \E t \in {"None", "set"} :
          Construct(w, c, t)
    /\ InitBus
    /\ InitStdIdle

NumClients == Cardinality(DOMAIN clients)

(* ------------------------ evaluate, step by step ---------------------- *)
\* evaluate(genomes, config), lines 36-38: jobs = [], self.chunks = list(...)
\* range() raises ValueError when the chunk size is 0. The call is also open
\* to a caller that has run __del__ by hand and still holds the evaluator.
EvaluateCall(n) ==
    /\ UNCHANGED <<busVars, stdVars>>
    /\ pc \in Ready
    /\ torn \in {"no", "done"}
    /\ round < MaxRounds
    /\ round' = round + 1
    /\ population' = FreshPopulation(n)
    /\ genomes' = Keys(FreshPopulation(n))
    /\ i' = 0
    /\ jobIdx' = 0
    /\ IF ChunkSize(n, num_workers) = 0
          THEN /\ pc' = "raised"
               /\ err' = "ValueError_step"
               /\ UNCHANGED chunks
          ELSE /\ pc' = "submit"
               /\ err' = "none"
               /\ chunks' = _chunks(Keys(FreshPopulation(n)), ChunkSize(n, num_workers))
    /\ UNCHANGED <<num_workers, clients, timeout, poolState, pool, torn>>

\* the submission gone wrong: a pool that queues the task whatever its state
SubmitUnchecked ==
    /\ UNCHANGED <<busVars, stdVars>>
    /\ pc = "submit"
    /\ i < NumClients
    /\ IF i >= Len(chunks)
          THEN /\ pc' = "raised"
               /\ err' = "IndexError"
               /\ UNCHANGED <<pool, i>>
          ELSE /\ pool' = Append(pool, [round |-> round, client |-> clients[i],
                                        chunk |-> chunks[i + 1],
                                        status |-> "pending", late |-> FALSE,
                                        foreign |-> FALSE])
               /\ i' = i + 1
               /\ UNCHANGED <<pc, err>>
    /\ UNCHANGED <<num_workers, clients, timeout, poolState, chunks,
                   population, genomes, jobIdx, round, torn>>

\* one pass of `for i in self.clients`, lines 40-42. The arguments
\* self.clients[i] and self.chunks[i] are evaluated before apply_async runs.
Submit ==
    /\ UNCHANGED <<busVars, stdVars>>
    /\ pc = "submit"
    /\ i < NumClients
    /\ IF i >= Len(chunks)
          THEN /\ pc' = "raised"
               /\ err' = "IndexError"
               /\ UNCHANGED <<pool, i>>
          ELSE IF poolState # "RUN"
          THEN /\ pc' = "raised"
               /\ err' = "ValueError_pool"
               /\ UNCHANGED <<pool, i>>
          ELSE /\ pool' = Append(pool, [round |-> round, client |-> clients[i],
                                        chunk |-> chunks[i + 1],
                                        status |-> "pending", late |-> FALSE,
                                        foreign |-> FALSE])
               /\ i' = i + 1
               /\ UNCHANGED <<pc, err>>
    /\ UNCHANGED <<num_workers, clients, timeout, poolState, chunks,
                   population, genomes, jobIdx, round, torn>>

\* line 43: self.pool.close(), reached when the loop is exhausted
ClosePool ==
    /\ UNCHANGED <<busVars, stdVars>>
    /\ pc = "submit"
    /\ i = NumClients
    /\ poolState' = "CLOSE"
    /\ pc' = "join"
    /\ UNCHANGED <<num_workers, clients, timeout, pool, chunks, population,
                   genomes, err, i, jobIdx, round, torn>>

\* line 44: self.pool.join() returns once the pool's workers have finished
\* every task handed to the pool
Join ==
    /\ UNCHANGED <<busVars, stdVars>>
    /\ pc = "join"
    /\ AllCompleted
    /\ pc' = "collect"
    /\ UNCHANGED <<num_workers, clients, timeout, poolState, pool, chunks,
                   population, genomes, err, i, jobIdx, round, torn>>

\* one pass of `for job in jobs`, lines 46-47:
\* genomes = list(itertools.chain(job.get(timeout=self.timeout)))
Collect ==
    /\ UNCHANGED <<busVars, stdVars>>
    /\ pc = "collect"
    /\ jobIdx < Cardinality(RoundJobs)
    /\ LET job == pool[JobAt(jobIdx + 1)] IN
         IF job.status = "done"
            THEN /\ genomes' = JobResult(job)
                 /\ jobIdx' = jobIdx + 1
                 /\ UNCHANGED <<pc, err>>
         ELSE IF job.status = "failed"
            THEN /\ pc' = "raised"
                 /\ err' = "WorkerError"
                 /\ UNCHANGED <<genomes, jobIdx>>
         ELSE /\ timeout = "set"
              /\ pc' = "raised"
              /\ err' = "TimeoutError"
              /\ UNCHANGED <<genomes, jobIdx>>
    /\ UNCHANGED <<num_workers, clients, timeout, poolState, pool, chunks,
                   population, i, round, torn>>

\* the loop of lines 46-47 is exhausted: evaluate returns None
Return ==
    /\ UNCHANGED <<busVars, stdVars>>
    /\ pc = "collect"
    /\ jobIdx = Cardinality(RoundJobs)
    /\ pc' = "returned"
    /\ UNCHANGED <<num_workers, clients, timeout, poolState, pool, chunks,
                   population, genomes, err, i, jobIdx, round, torn>>

(* -------------------------- the pool's workers ------------------------ *)
\* a worker process picks a queued task; Pool(num_workers) has that many
JobStart(k) ==
    /\ UNCHANGED <<busVars, stdVars>>
    /\ pool[k].status = "pending"
    /\ Cardinality({q \in 1..Len(pool) : pool[q].status = "running"}) < num_workers
    /\ pool' = [pool EXCEPT ![k].status = "running"]
    /\ UNCHANGED <<num_workers, clients, timeout, poolState, chunks, population,
                   genomes, pc, err, i, jobIdx, round, torn>>

\* eval_function returns its results (tagged with the chunk's keys, or with a
\* key of its own making) or raises; a job that never completes simply never
\* takes this step
JobFinish(k, outcome) ==
    /\ UNCHANGED <<busVars, stdVars>>
    /\ pool[k].status = "running"
    /\ pool' = [pool EXCEPT ![k].status = IF outcome = "failed" THEN "failed" ELSE "done",
                            ![k].foreign = (outcome = "done_foreign")]
    /\ UNCHANGED <<num_workers, clients, timeout, poolState, chunks, population,
                   genomes, pc, err, i, jobIdx, round, torn>>

\* the configured timeout elapses while evaluate is waiting on the pool and
\* the job has not completed
JobOverrun(k) ==
    /\ UNCHANGED <<busVars, stdVars>>
    /\ timeout = "set"
    /\ pc \in {"join", "collect"}
    /\ InFlight(pool[k])
    /\ ~pool[k].late
    /\ pool' = [pool EXCEPT ![k].late = TRUE]
    /\ UNCHANGED <<num_workers, clients, timeout, poolState, chunks, population,
                   genomes, pc, err, i, jobIdx, round, torn>>

(* ------------------------------ __del__ ------------------------------- *)
\* line 26: self.pool.close()
DelClose ==
    /\ UNCHANGED <<busVars, stdVars>>
    /\ pc \in Ready
    /\ torn = "no"
    /\ poolState' = "CLOSE"
    /\ torn' = "closing"
    /\ UNCHANGED <<num_workers, clients, timeout, pool, chunks, population,
                   genomes, pc, err, i, jobIdx, round>>

\* line 27: self.pool.join()
DelJoin ==
    /\ UNCHANGED <<busVars, stdVars>>
    /\ torn = "closing"
    /\ AllCompleted
    /\ torn' = "done"
    /\ UNCHANGED <<num_workers, clients, timeout, poolState, pool, chunks,
                   population, genomes, pc, err, i, jobIdx, round>>

NextEval ==
    \/ \E n \in 0..MaxPop : EvaluateCall(n)
    \/ Submit
    \/ ClosePool
    \/ Join
    \/ Collect
    \/ Return
    \/ \E k \in 1..Len(pool) : JobStart(k)
    \/ \E k \in 1..Len(pool) : \E o \in {"done", "done_foreign", "failed"} : JobFinish(k, o)
    \/ \E k \in 1..Len(pool) : JobOverrun(k)
    \/ DelClose
    \/ DelJoin

SpecEval == InitEval /\ [][NextEval]_vars

NextBus ==
    \/ \E r \in Observers : add(r)
    \/ \E r \in Observers : remove(r)
    \/ \E m \in Methods : Broadcast(m)
    \/ \E outcome \in {"return", "raise"} : Deliver(outcome)
    \/ Finish

\* a ReporterSet on its own, beside one idle evaluator
InitBusOnly == InitBus /\ Construct(1, 1, "None") /\ InitStdIdle

SpecBus == InitBusOnly /\ [][NextBus]_vars

\* a StdOutReporter of either kind, with or without a log left by an earlier
\* run, beside one idle evaluator and an empty ReporterSet
InitStd ==
    /\ \E detail \in BOOLEAN : \E pop \in Populations : \E sp \in SpeciesSets :
       \E file \in {NoFile, [exists |-> TRUE, content |-> <<Header(1)>>]} :
          ConstructStd(detail, pop, sp, file)
    /\ InitBus
    /\ Construct(1, 1, "None")

\* the hooks in any order; the guards keep the files and the counters finite
NextStd ==
    \/ Tick
    \/ \E g \in Generations :
          /\ Len(Opened(fitness_population, g)) < MaxLog
          /\ start_generation(g)
    \/ Len(allTimes) < MaxEnds /\ end_generation
    \/ \E b \in 1..Len(popArg) :
          /\ Len(fitness_population.content) < MaxLog
          /\ RowsWritten < MaxLog
          /\ post_evaluate(b)
    \/ post_reproduction
    \/ num_extinctions < MaxExtinctions /\ complete_extinction
    \/ found_solution
    \/ species_stagnant
    \/ info

SpecStd == InitStd /\ [][NextStd]_vars

(* ===================== properties of ParallelEvaluator ================ *)
ChunksComputed == round >= 1 /\ err # "ValueError_step"

EvaluateEnded == round >= 1 /\ pc \in {"returned", "raised"}

\* C1: when evaluate returns without error, every genome of the caller's
\* population carries exactly one fitness value, written once on the caller's
\* own genome objects.
C1_FitnessAssigned ==
    pc = "returned" =>
        \A k \in 1..Len(population) :
            population[k].fitness # "None" /\ population[k].writes = 1

\* C2: for N >= 1 and 1 <= W <= N the partition self.chunks has exactly W
\* non-overlapping chunks whose sizes differ by at most 1 and whose union is
\* the whole population.
C2_BalancedPartition ==
    (ChunksComputed /\ Len(population) >= 1 /\ num_workers <= Len(population)) =>
        /\ Len(chunks) = num_workers
        /\ \A a, b \in 1..Len(chunks) :
              /\ Len(chunks[a]) - Len(chunks[b]) <= 1
              /\ a # b => Range(chunks[a]) \cap Range(chunks[b]) = {}
        /\ UNION {Range(chunks[a]) : a \in 1..Len(chunks)} = Range(Keys(population))

\* C3: the pool keeps accepting work between rounds; it stops accepting work
\* only at teardown, so no evaluate call before teardown is refused by the pool.
C3_PoolReusedAcrossRounds ==
    torn = "no" =>
        /\ pc \in Ready => poolState = "RUN"
        /\ err # "ValueError_pool"

\* C4: if the number of chunks differs from the number of clients, evaluate
\* fails and no job of the round has been submitted.
C4_NoPartialDispatch ==
    (ChunksComputed /\ Len(chunks) # NumClients) =>
        /\ RoundJobs = {}
        /\ pc # "returned"

\* C5: with a timeout configured, a round in which some job did not complete
\* within the timeout never returns normally (it fails with a timeout error).
C5_TimeoutIsFatal ==
    (timeout = "set" /\ \E k \in RoundJobs : pool[k].late) =>
        pc # "returned"

\* C7: whenever evaluate hands control back, by returning or by raising, no
\* job submitted in that round is still queued or executing in the pool.
C7_NoJobInFlightAfterEvaluate ==
    EvaluateEnded => \A k \in RoundJobs : ~InFlight(pool[k])

\* C8: once the submission loop is over, exactly one job per client has been
\* submitted, the i-th job carries the i-th client and the i-th chunk, every
\* chunk is carried by exactly one job, the pool accepts no more work, and no
\* result is read before every submitted job has completed or errored.
C8_OneJobPerPair ==
    pc \in {"join", "collect", "returned"} =>
        /\ Cardinality(RoundJobs) = NumClients
        /\ \A k \in 1..Cardinality(RoundJobs) :
              /\ pool[JobAt(k)].client = clients[k - 1]
              /\ pool[JobAt(k)].chunk = chunks[k]
        /\ \A c \in 1..Len(chunks) :
              Cardinality({k \in RoundJobs : pool[k].chunk = chunks[c]}) = 1
        /\ poolState = "CLOSE"
        /\ pc \in {"collect", "returned"} =>
              \A k \in RoundJobs : Completed(pool[k])

\* C11: when evaluate ends and a job of the round has raised during execution
\* by then, evaluate ends by raising that job's error; and no job of the round
\* is submitted twice: every (client, chunk) pair is in the pool at most once.
C11_WorkerErrorPropagates ==
    [][/\ (pc \notin Ready /\ pc' \in Ready /\ \E k \in RoundJobs : pool[k].status = "failed") =>
             (pc' = "raised" /\ err' = "WorkerError")
       /\ \A a, b \in 1..Len(pool') :
             (/\ pool'[a].round = pool'[b].round
              /\ (pool'[a].client = pool'[b].client \/ pool'[a].chunk = pool'[b].chunk)) => a = b]_vars

\* C12: once teardown has completed, a submission fails with the pool-closed
\* error and the pool's tasks stay as they were: none is scheduled, none starts.
C12_NoWorkAfterTeardown ==
    [][torn = "done" =>
          /\ pool' = pool
          /\ (pc = "submit" /\ i < NumClients /\ i < Len(chunks)) =>
                (pc' = "raised" /\ err' = "ValueError_pool")]_vars

\* the first submission of an evaluator torn down before any round was refused
C12_Witness ==
    /\ torn = "done"
    /\ pool = <<>>
    /\ pc = "raised"
    /\ err = "ValueError_pool"

\* C15: evaluate does not return normally when a job's result contains a pair
\* whose key is not a key of the population being evaluated.
C15_ForeignKeyIsFatal ==
    pc = "returned" =>
        \A k \in RoundJobs : \A r \in 1..Len(JobResult(pool[k])) :
            JobResult(pool[k])[r][1] \in Range(Keys(population))

\* C19: an evaluate call with more workers than genomes raises at once: no job
\* is submitted, the pool is not closed and no genome is written.
C19_TooManyWorkers ==
    [][(round' = round + 1 /\ Len(population') < num_workers) =>
          /\ pc' = "raised"
          /\ err' = "ValueError_step"
          /\ pool' = pool
          /\ poolState' = poolState
          /\ \A k \in 1..Len(population') :
                population'[k].fitness = "None" /\ population'[k].writes = 0]_vars

\* the first call of an evaluator with two workers on one genome has raised,
\* the pool still accepts work
C19_Witness ==
    /\ pc = "raised"
    /\ err = "ValueError_step"
    /\ round = 1
    /\ Len(population) = 1
    /\ num_workers = 2
    /\ poolState = "RUN"
    /\ pool = <<>>


(* ======================== properties of ReporterSet =================== *)
Count(s, x) == Cardinality({k \in 1..Len(s) : s[k] = x})

\* the observers whose hooks the broadcast has invoked, in invocation order
Invoked == [k \in 1..Len(bcast.log) |-> bcast.log[k].obs]

\* s can be obtained from t by deleting elements of t
RECURSIVE IsSubSeq(_, _)
IsSubSeq(s, t) ==
    IF s = <<>> THEN TRUE
    ELSE IF t = <<>> THEN FALSE
    ELSE IF Head(s) = Head(t) THEN IsSubSeq(Tail(s), Tail(t))
    ELSE IsSubSeq(s, Tail(t))

\* every broadcast method invokes its own hook, observer after observer in
\* the order of the add calls
InAddOrder ==
    /\ \A k \in 1..Len(bcast.log) : bcast.log[k].hook = bcast.method
    /\ IsSubSeq(Invoked, adds)
    /\ (bcast.status = "done" /\ ~bcast.mutated) => Len(bcast.log) = Len(reporters)

\* a broadcast started after the last add/remove call and not re-entered
LaterBroadcast == bcast.status # "idle" /\ ~bcast.mutated

\* C6 (as stated): every broadcast method invokes the hooks in the order the
\* observers were added, and once remove(o) has returned no later broadcast
\* invokes o, whatever add and remove calls came before.
C6_RemovedGetsNothing ==
    /\ InAddOrder
    /\ LaterBroadcast => \A o \in unreg : o \notin Range(Invoked)

\* C6 (amended): every broadcast method invokes the hooks in the order the
\* observers were added; once remove(o) has returned, a later broadcast invokes
\* o once per registration of o that is left (its add calls minus its returned
\* remove calls), so never when the remove took its last registration.
C6_RemovedGetsRemaining ==
    /\ InAddOrder
    /\ LaterBroadcast =>
          \A o \in Observers :
              /\ Count(Invoked, o) <= Count(adds, o) - removed[o]
              /\ bcast.status = "done" => Count(Invoked, o) = Count(adds, o) - removed[o]

\* a finished broadcast that invoked two hooks, one of them of an observer
\* whose latest call was a returned remove and that is still registered
C6_Witness ==
    /\ bcast.status = "done"
    /\ ~bcast.mutated
    /\ Len(bcast.log) >= 2
    /\ \E o \in unreg : o \in Range(Invoked)

\* C9: when a hook raises, the broadcast stops there: the error reaches the
\* caller, the observers registered before the failing one have received the
\* event and none registered after it does.
C9_AbortOnFirstFailure ==
    bcast.failed > 0 =>
        /\ bcast.status = "raised"
        /\ bcast.failed = Len(bcast.log)
        /\ ~bcast.mutated => Invoked = SubSeq(reporters, 1, bcast.failed)

\* the second of three registered observers raised
C9_Witness ==
    /\ bcast.status = "raised"
    /\ ~bcast.mutated
    /\ bcast.failed = 2
    /\ Len(reporters) = 3
    /\ ret = [op |-> "hook", arg |-> reporters[2], res |-> "raised"]

\* C10: remove(o) for an o that is not in the registry fails with an error and
\* leaves the registry, members and order, unchanged.
C10_RemoveUnregistered ==
    [][(ret'.op = "remove" /\ ret'.arg \notin Range(reporters)) =>
            (ret'.res = "ValueError" /\ reporters' = reporters)]_vars

\* a remove of an unregistered observer failed on a registry of two members
C10_Witness ==
    /\ ret.op = "remove"
    /\ ret.res = "ValueError"
    /\ Len(reporters) = 2
    /\ ret.arg \notin Range(reporters)

\* the add history without the first n[o] occurrences of every observer o
RECURSIVE DropEarliest(_, _)
DropEarliest(h, n) ==
    IF h = <<>> THEN <<>>
    ELSE IF n[Head(h)] > 0
         THEN DropEarliest(Tail(h), [n EXCEPT ![Head(h)] = @ - 1])
         ELSE <<Head(h)>> \o DropEarliest(Tail(h), n)

\* C17: the registry is a list with multiplicity: it holds one entry per add
\* call, in call order, less the earliest entries of each observer that remove
\* calls took away; a broadcast invokes an observer once per entry it has.
C17_ListWithMultiplicity ==
    /\ reporters = DropEarliest(adds, removed)
    /\ (bcast.status = "done" /\ ~bcast.mutated) => Invoked = reporters

\* an observer added twice around another one, removed once: its later entry
\* is left behind the other observer, and a broadcast has gone through both
C17_Witness ==
    /\ bcast.status = "done"
    /\ ~bcast.mutated
    /\ \E o, q \in Observers :
          /\ o # q
          /\ adds = <<o, q, o>>
          /\ removed[o] = 1
          /\ Invoked = <<q, o>>

\* C18: a finished broadcast has invoked exactly once every observer that held
\* one registration when the broadcast started and holds one when it ends, also
\* when hooks called add or remove during the broadcast.
C18_ReentrantExactlyOnce ==
    bcast.status = "done" =>
        \A o \in Observers :
            (Count(bcast.start, o) = 1 /\ Count(reporters, o) = 1) => Count(Invoked, o) = 1

(* ====================== properties of StdOutReporter ================== *)
\* s is an initial part of t
IsPrefix(s, t) == Len(s) <= Len(t) /\ SubSeq(t, 1, Len(s)) = s

\* C13: generation_times never holds more than 10 entries, and they are the
\* durations of the most recent end_generation calls, in call order; after the
\* 11th call the first duration is gone and the ten after it remain.
C13_RollingWindow ==
    /\ Len(generation_times) <= 10
    /\ Len(generation_times) = IF Len(allTimes) < 10 THEN Len(allTimes) ELSE 10
    /\ \A k \in 1..Len(generation_times) :
          generation_times[k] = allTimes[Len(allTimes) - Len(generation_times) + k]

\* eleven calls, the first of which measured another duration than the ten
\* that followed: the window holds those ten
C13_Witness ==
    /\ Len(allTimes) = 11
    /\ allTimes[1] \notin Range(Tail(allTimes))
    /\ generation_times = Tail(allTimes)

\* C14 (as stated): the run-level log only grows: after every hook call its
\* content has the content before the call as a prefix.
C14_AppendOnly ==
    [][IsPrefix(fitness_population.content, fitness_population'.content)]_vars

\* C14 (amended): the run-level log only grows, except that start_generation
\* with generation 0 empties it before writing the generation number: after
\* every hook call the log has its former content as a prefix, or the reporter
\* is at generation 0 and the log holds the generation number alone.
C14_AppendOnlyButGenerationZero ==
    [][\/ IsPrefix(fitness_population.content, fitness_population'.content)
       \/ /\ generation' = Some(0)
          /\ fitness_population'.content = <<Header(0)>>]_vars

\* generation 0 has started after a statistics record had been written: the
\* per-generation file has its rows, the log holds the generation number alone
C14_Witness ==
    /\ generation = Some(0)
    /\ fitness_population.content = <<Header(0)>>
    /\ RowsWritten > 0

\* C16: no hook changes the population or the species set it is given.
C16_HooksReadOnly ==
    [][popArg' = popArg /\ speciesArg' = speciesArg]_vars

\* start_generation, post_evaluate (it wrote its rows), end_generation and
\* complete_extinction have all run on an evaluated population and one species
C16_Witness ==
    /\ Len(popArg) >= 1
    /\ Len(speciesArg) = 1
    /\ generation # None
    /\ RowsWritten > 0
    /\ Len(generation_times) >= 1
    /\ num_extinctions >= 1

====
